---- MODULE Spec2Model ----
(***************************************************************************)
(* Model of ads_plugin.py: one Plc (device worker) with its command queue, *)
(* its worker thread, its per-rate poll threads, the Symbol objects it     *)
(* hands out and the Connection objects that use them.                     *)
(*                                                                         *)
(* Python values are kept apart by a tag where the code compares values    *)
(* of different types (a str against a tuple key, a bound method against   *)
(* a (func, args, kwargs) tuple): equality of two tagged records is        *)
(* Python's == on the values they stand for.                               *)
(***************************************************************************)
EXTENDS Integers, Sequences, FiniteSets, TLC

\* ---------------------------------------------------------------- bounds
MaxConns == 2          \* Connection objects constructed in one run
MaxStops == 1          \* calls of Plc.stop in one run
MaxOctets == 6         \* dotted octets of a host given to parse_address

\* ---------------------------------------------------------------- values
None == "None"
SymbolNames == {"MAIN.a"}
Rates == {"0.5"}                        \* poll rates a channel address may carry
PollRates == Rates \cup {None}
Values == {"v0"}                        \* what read_by_name may return
PLCTYPE == "PLCTYPE_INT"                \* a type get_symbol_data_type resolves to

\* the key of Plc.symbols, (symbol_name, poll_rate), and a bare str
Key(symbol_name, poll_rate) ==
    [tag |-> "tuple", name |-> symbol_name, rate |-> poll_rate]
Str(symbol_name) ==
    [tag |-> "str", name |-> symbol_name, rate |-> None]

\* an element of poll_threads[rate]['calls'], (func, args, kwargs), and the
\* bound method Symbol.poll of the Symbol object self
CallEntry(self) == [tag |-> "tuple", func |-> self]
BoundPoll(self) == [tag |-> "method", func |-> self]

\* threads
Main == [kind |-> "main", rate |-> None]
Worker == [kind |-> "worker", rate |-> None]
PollThread(rate) == [kind |-> "poll", rate |-> rate]
ExecThreads == {Worker} \cup {PollThread(r) : r \in Rates}

\* a queue item (func, args, kwargs); ticket is its position in enqueue order
Item(func, self, ticket) == [func |-> func, self |-> self, ticket |-> ticket]
Idle == Item("none", 0, 0)

VARIABLES
    running,        \* Plc.running
    is_open,        \* Plc.ads.is_open
    symbols,        \* Plc.symbols: key -> Symbol object (index into heap)
    heap,           \* the Symbol objects ever constructed
    queue,          \* Plc.queue
    poll_threads,   \* Plc.poll_threads: rate -> [thread, calls]
    pc,             \* where each worker / poll thread is
    cur,            \* what each thread is executing
    snapshot,       \* per poll thread: list(info['calls']) of the cycle
    idx,            \* per poll thread: position of the for loop
    invoked,        \* per poll thread: callbacks invoked in the cycle
    conns,          \* the Connection objects ever constructed
    stops,          \* number of stop() calls
    enqueued,       \* number of items ever put on the queue
    startOrder,     \* tickets in the order the worker started them
    done,           \* tickets whose execution has finished
    outcome,        \* per finished ticket: how its execution ended
    queryCount,     \* per Symbol object: metadata queries issued
    queryFailed,    \* Symbol objects with a failed metadata query
    lastEvent,      \* what the last step did
    PLCS,           \* _PLCS: (ip_address, ams_id, port) -> Plc object
    plcs,           \* the Plc objects ever constructed, by identity
    lastPlc,        \* the last get_connection call: its key and its result
    address,        \* the host part handed to parse_address
    parsed,         \* what parse_address returned or raised
    sample,         \* the value and kind a notification carries
    decoded         \* what unpack_notification returned

vars == <<running, is_open, symbols, heap, queue, poll_threads, pc, cur,
          snapshot, idx, invoked, conns, stops, enqueued, startOrder, done,
          outcome, queryCount, queryFailed, lastEvent,
          PLCS, plcs, lastPlc, address, parsed, sample, decoded>>

\* the state of the one Plc whose threads are followed
plcVars == <<running, is_open, symbols, heap, queue, poll_threads, pc, cur,
             snapshot, idx, invoked, conns, stops, enqueued, startOrder, done,
             outcome, queryCount, queryFailed, lastEvent>>
\* the registry, and the inputs and outputs of the pure functions
regVars == <<PLCS, plcs, lastPlc>>
pureVars == <<address, parsed, sample, decoded>>

\* the record of a step: the operation, the thread that ran it, the Symbol and
\* Connection it concerns, the exception it raised (one escaping a handler of
\* its own included), the mappings it changed, whether it closed the transport
\* and the payload it handed to the sink
NoPayload == [connection |-> FALSE, value |-> None]
Event(op, thread, self, conn, exc, mutated, closes) ==
    [op |-> op, thread |-> thread, self |-> self, conn |-> conn, exc |-> exc,
     mutated |-> mutated, closes |-> closes, payload |-> NoPayload]

\* a transport operation (metadata query or value read) is in progress on t
InFlight(t) == pc[t] \in {"query", "read"}

\* ------------------------------------------------------------------ Plc
\* Symbol.__init__
NewSymbol(symbol_name, poll_rate) ==
    [symbol |-> symbol_name, poll_rate |-> poll_rate, data_type |-> None,
     conn |-> 0, notification_handle |-> None,
     data |-> [connection |-> FALSE, value |-> None]]

\* a get_symbol that constructs a Symbol on every call
get_symbol_fresh(symbol_name, poll_rate) ==
    [ret |-> Len(heap) + 1,
     symbols |-> (Key(symbol_name, poll_rate) :> (Len(heap) + 1)) @@ symbols,
     heap |-> Append(heap, NewSymbol(symbol_name, poll_rate)),
     is_open |-> TRUE]

\* Plc.get_symbol: the Symbol returned and the state it leaves
get_symbol(symbol_name, poll_rate) ==
    LET key == Key(symbol_name, poll_rate) IN
    IF key \in DOMAIN symbols
    THEN [ret |-> symbols[key], symbols |-> symbols, heap |-> heap,
          is_open |-> is_open]
    ELSE [ret |-> Len(heap) + 1,
          symbols |-> (key :> (Len(heap) + 1)) @@ symbols,
          heap |-> Append(heap, NewSymbol(symbol_name, poll_rate)),
          is_open |-> TRUE]

\* an add_to_poll_thread that starts the thread of a new rate with an empty
\* group and never appends the callback
add_to_poll_thread_nocall(pt, rate, self) ==
    IF rate \notin DOMAIN pt
    THEN (rate :> [thread |-> PollThread(rate), calls |-> <<>>]) @@ pt
    ELSE pt

\* Plc.add_to_poll_thread(rate, func): the mapping it leaves
add_to_poll_thread(pt, rate, self) ==
    IF rate \notin DOMAIN pt
    THEN (rate :> [thread |-> PollThread(rate), calls |-> <<CallEntry(self)>>])
         @@ pt
    ELSE [pt EXCEPT ![rate].calls = Append(@, CallEntry(self))]

\* a set_connection that keeps the sink of the first connection
set_conn_first(h, self, conn) ==
    IF h[self].conn = 0 THEN [h EXCEPT ![self].conn = conn] ELSE h

\* Symbol.set_connection: self.conn = conn
set_conn(h, self, conn) == [h EXCEPT ![self].conn = conn]

\* Plc.add_to_queue
add_to_queue(q, func, self, ticket) == Append(q, Item(func, self, ticket))

\* a get that takes the newest item instead of the oldest
queue_get_lifo(q) == [item |-> q[Len(q)], rest |-> SubSeq(q, 1, Len(q) - 1)]

\* queue.Queue.get of Plc._thread: the item taken and the queue left
queue_get(q) == [item |-> Head(q), rest |-> Tail(q)]

\* list.remove(x): removes the first element equal to x, ValueError if none
list_remove(list, x) ==
    IF \E i \in 1..Len(list) : list[i] = x
    THEN LET i == CHOOSE i \in 1..Len(list) :
                     list[i] = x /\ \A j \in 1..(i - 1) : list[j] # x
         IN [raised |-> FALSE,
             list |-> SubSeq(list, 1, i - 1) \o SubSeq(list, i + 1, Len(list))]
    ELSE [raised |-> TRUE, list |-> list]

\* Plc.clear_symbol(symbol): dict.pop raises KeyError for a missing key
clear_symbol(symbol) ==
    IF symbol \in DOMAIN symbols
    THEN LET rest == [k \in DOMAIN symbols \ {symbol} |-> symbols[k]] IN
         [raised |-> FALSE, symbols |-> rest,
          is_open |-> IF DOMAIN rest = {} THEN FALSE ELSE is_open]
    ELSE [raised |-> TRUE, symbols |-> symbols, is_open |-> is_open]

\* the identities get_connection is called with; Device is the identity of
\* the Plc whose threads are followed
Identity(ip_address, ams_id, port) ==
    [ip_address |-> ip_address, ams_id |-> ams_id, port |-> port]
IpAddresses == {"5.6.7.8", "10.0.0.5"}
AmsIds == {"5.6.7.8.1.1", "10.0.0.5.1.1"}
Ports == {851, 852}
Device == Identity("5.6.7.8", "5.6.7.8.1.1", 851)
NoCall == [key |-> Device, ret |-> 0]

\* a get_connection that constructs a Plc on every call
get_connection_nocache(reg, objs, key) ==
    [ret |-> Len(objs) + 1, PLCS |-> (key :> (Len(objs) + 1)) @@ reg,
     plcs |-> Append(objs, key)]

\* get_connection: the Plc returned, and the registry and Plc objects left
get_connection(reg, objs, key) ==
    IF key \in DOMAIN reg
    THEN [ret |-> reg[key], PLCS |-> reg, plcs |-> objs]
    ELSE [ret |-> Len(objs) + 1, PLCS |-> (key :> (Len(objs) + 1)) @@ reg,
          plcs |-> Append(objs, key)]

\* the Plc followed has been constructed by get_connection(Device); nothing
\* has been parsed or decoded
InitPlc ==
    /\ running = TRUE
    /\ is_open = FALSE
    /\ symbols = <<>>
    /\ heap = <<>>
    /\ queue = <<>>
    /\ poll_threads = <<>>
    /\ pc = [t \in ExecThreads |-> IF t = Worker THEN "check" ELSE "none"]
    /\ cur = [t \in ExecThreads |-> Idle]
    /\ snapshot = [r \in Rates |-> <<>>]
    /\ idx = [r \in Rates |-> 0]
    /\ invoked = [r \in Rates |-> <<>>]
    /\ conns = <<>>
    /\ stops = 0
    /\ enqueued = 0
    /\ startOrder = <<>>
    /\ done = {}
    /\ outcome = <<>>
    /\ queryCount = <<>>
    /\ queryFailed = {}
    /\ lastEvent = Event("Plc.__init__", Main, 0, 0, "", {}, FALSE)
    /\ PLCS = (Device :> 1)
    /\ plcs = <<Device>>
    /\ lastPlc = NoCall

NoAddress == <<>>
NotParsed ==
    [status |-> "none", ip_address |-> <<>>, host |-> <<>>, ams_id |-> <<>>,
     port |-> 0, poll_rate |-> <<>>, symbol |-> <<>>]
NoSample == [kind |-> "none", value |-> 0]
NotDecoded == [status |-> "none", value |-> 0, raw |-> <<>>]

Init ==
    /\ InitPlc
    /\ address = NoAddress
    /\ parsed = NotParsed
    /\ sample = NoSample
    /\ decoded = NotDecoded

\* ----------------------------------------------------- the caller's thread
\* Connection.__init__: get_connection, get_symbol, Symbol.set_connection
NewConnection(symbol_name, poll_rate) ==
    /\ Len(conns) < MaxConns
    /\ LET plc == get_connection(PLCS, plcs, Device) IN
       /\ plc.ret = 1
       /\ PLCS' = plc.PLCS
       /\ plcs' = plc.plcs
    /\ UNCHANGED <<lastPlc, pureVars, outcome>>
    /\ LET got == get_symbol(symbol_name, poll_rate)
           self == got.ret
           c == Len(conns) + 1
       IN /\ symbols' = got.symbols
          /\ is_open' = got.is_open
          /\ heap' = set_conn(got.heap, self, c)
          /\ queryCount' = IF self > Len(heap) THEN Append(queryCount, 0)
                           ELSE queryCount
          /\ queue' = add_to_queue(queue, "init", self, enqueued + 1)
          /\ enqueued' = enqueued + 1
          /\ IF poll_rate # None
             THEN /\ poll_threads' =
                         add_to_poll_thread(poll_threads, poll_rate, self)
                  /\ pc' = IF poll_rate \in DOMAIN poll_threads THEN pc
                           ELSE [pc EXCEPT ![PollThread(poll_rate)] = "loop"]
             ELSE UNCHANGED <<poll_threads, pc>>
          /\ conns' = Append(conns, [symbol_name |-> symbol_name,
                                      poll_rate |-> poll_rate,
                                      symbol |-> self, closed |-> FALSE,
                                      ticket |-> enqueued + 1])
          /\ lastEvent' = Event("Connection.__init__", Main, self, c, "",
                  (IF self > Len(heap) THEN {"symbols"} ELSE {})
                  \cup (IF poll_rate # None THEN {"poll_threads"} ELSE {}),
                  FALSE)
    /\ UNCHANGED <<running, cur, snapshot, idx, invoked, stops, startOrder,
                   done, queryFailed>>

\* Connection.close: clear_symbol(self.symbol_name), then super().close()
ConnectionClose(c) ==
    /\ c \in 1..Len(conns)
    /\ ~conns[c].closed
    /\ LET res == clear_symbol(Str(conns[c].symbol_name)) IN
       /\ symbols' = res.symbols
       /\ is_open' = res.is_open
       /\ lastEvent' = Event("Connection.close", Main, conns[c].symbol, c,
               IF res.raised THEN "KeyError" ELSE "",
               IF res.raised THEN {} ELSE {"symbols"},
               ~res.raised /\ DOMAIN res.symbols = {})
    /\ conns' = [conns EXCEPT ![c].closed = TRUE]
    /\ UNCHANGED outcome
    /\ UNCHANGED <<regVars, pureVars>>
    /\ UNCHANGED <<running, heap, queue, poll_threads, pc, cur, snapshot, idx,
                   invoked, stops, enqueued, startOrder, done, queryCount,
                   queryFailed>>

\* a stop that only clears the flag, without the no-op that wakes the worker
Stop_noenqueue ==
    /\ stops < MaxStops
    /\ stops' = stops + 1
    /\ running' = FALSE
    /\ lastEvent' = Event("Plc.stop", Main, 0, 0, "", {}, FALSE)
    /\ UNCHANGED <<regVars, pureVars, outcome>>
    /\ UNCHANGED <<is_open, symbols, heap, queue, enqueued, poll_threads, pc,
                   cur, snapshot, idx, invoked, conns, startOrder, done,
                   queryCount, queryFailed>>

\* Plc.stop
Stop ==
    /\ stops < MaxStops
    /\ stops' = stops + 1
    /\ running' = FALSE
    /\ queue' = add_to_queue(queue, "nop", 0, enqueued + 1)
    /\ enqueued' = enqueued + 1
    /\ lastEvent' = Event("Plc.stop", Main, 0, 0, "", {}, FALSE)
    /\ UNCHANGED outcome
    /\ UNCHANGED <<regVars, pureVars>>
    /\ UNCHANGED <<is_open, symbols, heap, poll_threads, pc, cur, snapshot,
                   idx, invoked, conns, startOrder, done, queryCount,
                   queryFailed>>

\* ------------------------------------------------- worker and poll threads
\* ctypes.sizeof(data_type): TypeError for a value that is not a ctypes type
sizeof_raises(data_type) == data_type = None

\* a poll that reads without resolving the type first
PollBegin_noresolve(t, item) ==
    /\ cur' = [cur EXCEPT ![t] = item]
    /\ pc' = [pc EXCEPT ![t] = "read"]
    /\ UNCHANGED queryCount

\* Symbol.poll up to its first transport call, on thread t for item
PollBegin(t, item) ==
    /\ cur' = [cur EXCEPT ![t] = item]
    /\ IF heap[item.self].data_type = None
       THEN /\ pc' = [pc EXCEPT ![t] = "query"]
            /\ queryCount' = [queryCount EXCEPT ![item.self] = @ + 1]
       ELSE /\ pc' = [pc EXCEPT ![t] = "read"]
            /\ UNCHANGED queryCount

\* a worker loop without the try/except: an exception ends the thread
Finish_uncaught(t, exc) ==
    /\ cur' = [cur EXCEPT ![t] = Idle]
    /\ pc' = [pc EXCEPT ![t] = IF exc # "" THEN "dead"
                                ELSE IF t = Worker THEN "check"
                                ELSE IF idx[t.rate] >= Len(snapshot[t.rate])
                                THEN "loop" ELSE "iter"]
    /\ done' = IF t = Worker THEN done \cup {cur[t].ticket} ELSE done
    /\ idx' = IF t = Worker THEN idx ELSE [idx EXCEPT ![t.rate] = @ + 1]
    /\ UNCHANGED poll_threads

\* the call that thread t was executing is over, with exception exc or ""
\* (Plc._thread lines 324-329, Plc._poll_thread lines 308-317)
Finish(t, exc) ==
    /\ cur' = [cur EXCEPT ![t] = Idle]
    /\ IF t = Worker
       THEN /\ pc' = [pc EXCEPT ![t] = "check"]
            /\ done' = done \cup {cur[t].ticket}
            /\ UNCHANGED <<poll_threads, idx>>
       ELSE LET r == t.rate
                calls == poll_threads[r].calls
                rem == IF exc # "" THEN list_remove(calls, BoundPoll(cur[t].self))
                       ELSE [raised |-> FALSE, list |-> calls]
            IN /\ poll_threads' = [poll_threads EXCEPT ![r].calls = rem.list]
               /\ pc' = [pc EXCEPT ![t] =
                            IF rem.raised THEN "dead"
                            ELSE IF idx[r] >= Len(snapshot[r]) THEN "loop"
                            ELSE "iter"]
               /\ idx' = [idx EXCEPT ![r] = IF rem.raised THEN @ ELSE @ + 1]
               /\ UNCHANGED done

\* the exception that leaves the handler of thread t when the call raised exc
Escapes(t, exc) ==
    IF t # Worker /\ exc # ""
       /\ list_remove(poll_threads[t.rate].calls, BoundPoll(cur[t].self)).raised
    THEN "ValueError" ELSE exc

\* Plc._thread: while self.running ... self.ads.close()
WorkerCheck ==
    /\ pc[Worker] = "check"
    /\ IF running
       THEN /\ pc' = [pc EXCEPT ![Worker] = "get"]
            /\ lastEvent' = Event("while", Worker, 0, 0, "", {}, FALSE)
            /\ UNCHANGED is_open
       ELSE /\ pc' = [pc EXCEPT ![Worker] = "dead"]
            /\ is_open' = FALSE
            /\ lastEvent' = Event("ads.close", Worker, 0, 0, "", {}, TRUE)
    /\ UNCHANGED outcome
    /\ UNCHANGED <<regVars, pureVars>>
    /\ UNCHANGED <<running, symbols, heap, queue, poll_threads, cur, snapshot,
                   idx, invoked, conns, stops, enqueued, startOrder, done,
                   queryCount, queryFailed>>

\* Plc._thread: queue.get() and the call of the item, up to the first
\* transport call of Symbol.poll (init of Symbol.set_connection, or the no-op)
WorkerGet ==
    /\ pc[Worker] = "get"
    /\ queue # <<>>
    /\ LET got == queue_get(queue)
           item == got.item
       IN /\ queue' = got.rest
          /\ startOrder' = Append(startOrder, item.ticket)
          /\ IF item.func = "nop"
             THEN /\ pc' = [pc EXCEPT ![Worker] = "check"]
                  /\ done' = done \cup {item.ticket}
                  /\ outcome' = (item.ticket :> "returned") @@ outcome
                  /\ lastEvent' = Event("nop", Worker, 0, 0, "", {}, FALSE)
                  /\ UNCHANGED <<heap, cur, queryCount>>
             ELSE IF heap[item.self].poll_rate = None
             THEN /\ pc' = [pc EXCEPT ![Worker] = "check"]
                  /\ done' = done \cup {item.ticket}
                  /\ UNCHANGED <<cur, queryCount>>
                  /\ IF sizeof_raises(heap[item.self].data_type)
                     THEN /\ lastEvent' = Event("init", Worker, item.self, 0,
                                                "TypeError", {}, FALSE)
                          /\ outcome' = (item.ticket :> "raised") @@ outcome
                          /\ UNCHANGED heap
                     ELSE \E ok \in BOOLEAN :
                          /\ heap' = IF ok
                               THEN [heap EXCEPT
                                       ![item.self].notification_handle = "handle"]
                               ELSE heap
                          /\ outcome' = (item.ticket :>
                                 IF ok THEN "returned" ELSE "raised") @@ outcome
                          /\ lastEvent' = Event("init", Worker, item.self, 0,
                                 IF ok THEN "" ELSE "transport", {}, FALSE)
             ELSE /\ PollBegin(Worker, item)
                  /\ lastEvent' = Event("poll", Worker, item.self, 0, "", {},
                                        FALSE)
                  /\ UNCHANGED <<heap, done, outcome>>
    /\ UNCHANGED <<regVars, pureVars>>
    /\ UNCHANGED <<running, is_open, symbols, poll_threads, snapshot, idx,
                   invoked, conns, stops, enqueued, queryFailed>>

\* Plc._poll_thread: while self.running; info = ...; list(info['calls'])
\* (the sleep that ends a cycle is part of the step that starts the next)
PollLoop(r) ==
    /\ pc[PollThread(r)] = "loop"
    /\ IF running
       THEN /\ snapshot' = [snapshot EXCEPT ![r] = poll_threads[r].calls]
            /\ idx' = [idx EXCEPT ![r] = 1]
            /\ invoked' = [invoked EXCEPT ![r] = <<>>]
            /\ pc' = [pc EXCEPT ![PollThread(r)] =
                         IF poll_threads[r].calls = <<>> THEN "loop" ELSE "iter"]
            /\ lastEvent' = Event("cycle", PollThread(r), 0, 0, "", {}, FALSE)
       ELSE /\ pc' = [pc EXCEPT ![PollThread(r)] = "dead"]
            /\ lastEvent' = Event("exit", PollThread(r), 0, 0, "", {}, FALSE)
            /\ UNCHANGED <<snapshot, idx, invoked>>
    /\ UNCHANGED outcome
    /\ UNCHANGED <<regVars, pureVars>>
    /\ UNCHANGED <<running, is_open, symbols, heap, queue, poll_threads, cur,
                   conns, stops, enqueued, startOrder, done, queryCount,
                   queryFailed>>

\* Plc._poll_thread: func(*args, **kwargs) of the next callback of the cycle,
\* up to the first transport call of Symbol.poll
PollCall(r) ==
    /\ pc[PollThread(r)] = "iter"
    /\ LET self == snapshot[r][idx[r]].func IN
       /\ invoked' = [invoked EXCEPT ![r] = Append(@, snapshot[r][idx[r]])]
       /\ PollBegin(PollThread(r), Item("poll", self, 0))
       /\ lastEvent' = Event("poll", PollThread(r), self, 0, "", {}, FALSE)
    /\ UNCHANGED outcome
    /\ UNCHANGED <<regVars, pureVars>>
    /\ UNCHANGED <<running, is_open, symbols, heap, queue, poll_threads,
                   snapshot, idx, conns, stops, enqueued, startOrder, done,
                   queryFailed>>

\* Symbol._update_data_type returns or raises on thread t
QueryEnd(t) ==
    /\ pc[t] = "query"
    /\ LET self == cur[t].self IN
       \E ok \in BOOLEAN :
       IF ok
       THEN /\ heap' = [heap EXCEPT ![self].data_type = PLCTYPE,
                                    ![self].data.connection = TRUE]
            /\ pc' = [pc EXCEPT ![t] = "read"]
            /\ lastEvent' = Event("_update_data_type", t, self, 0, "", {},
                                  FALSE)
            /\ UNCHANGED <<cur, done, outcome, poll_threads, idx, queryFailed>>
       ELSE /\ queryFailed' = queryFailed \cup {self}
            /\ Finish(t, "transport")
            /\ outcome' = IF t = Worker
                          THEN (cur[t].ticket :> "raised") @@ outcome
                          ELSE outcome
            /\ lastEvent' = Event("_update_data_type", t, self, 0,
                                  Escapes(t, "transport"), {}, FALSE)
            /\ UNCHANGED heap
    /\ UNCHANGED <<regVars, pureVars>>
    /\ UNCHANGED <<running, is_open, symbols, queue, snapshot, invoked, conns,
                   stops, enqueued, startOrder, queryCount>>

\* read_by_name returns or raises on thread t; Symbol.send_to_channel
ReadEnd(t) ==
    /\ pc[t] = "read"
    /\ LET self == cur[t].self IN
       \E ok \in BOOLEAN, value \in Values :
       IF ok
       THEN /\ heap' = [heap EXCEPT ![self].data.value = value]
            /\ Finish(t, "")
            /\ outcome' = IF t = Worker
                          THEN (cur[t].ticket :> "delivered") @@ outcome
                          ELSE outcome
            /\ lastEvent' = [Event("send_to_channel", t, self, heap[self].conn,
                                   "", {}, FALSE)
                             EXCEPT !.payload = heap'[self].data]
       ELSE /\ value = CHOOSE v \in Values : TRUE
            /\ Finish(t, "transport")
            /\ outcome' = IF t = Worker
                          THEN (cur[t].ticket :> "raised") @@ outcome
                          ELSE outcome
            /\ lastEvent' = Event("read_by_name", t, self, 0,
                                  Escapes(t, "transport"), {}, FALSE)
            /\ UNCHANGED heap
    /\ UNCHANGED <<regVars, pureVars>>
    /\ UNCHANGED <<running, is_open, symbols, queue, snapshot, invoked, conns,
                   stops, enqueued, startOrder, queryCount, queryFailed>>

Next ==
    \/ \E n \in SymbolNames, r \in PollRates : NewConnection(n, r)
    \/ \E c \in 1..MaxConns : ConnectionClose(c)
    \/ Stop
    \/ WorkerCheck
    \/ WorkerGet
    \/ \E r \in Rates : PollLoop(r)
    \/ \E r \in Rates : PollCall(r)
    \/ \E t \in ExecThreads : QueryEnd(t)
    \/ \E t \in ExecThreads : ReadEnd(t)

Spec == Init /\ [][Next]_vars

TypeOK ==
    /\ running \in BOOLEAN
    /\ is_open \in BOOLEAN
    /\ Len(heap) <= MaxConns
    /\ Len(queryCount) = Len(heap)
    /\ \A t \in ExecThreads :
          pc[t] \in {"none", "check", "get", "loop", "iter", "query", "read",
                     "dead"}

\* ------------------------------------------------------------- properties
Range(list) == {list[i] : i \in 1..Len(list)}

\* the Symbol objects
Objects == 1..Len(heap)

\* the callback of Symbol object self is a member of some poll group
Polled(self) ==
    \E r \in DOMAIN poll_threads : CallEntry(self) \in Range(poll_threads[r].calls)

\* every Connection ever opened on Symbol object self has been closed
Released(self) ==
    /\ \E c \in 1..Len(conns) : conns[c].symbol = self
    /\ \A c \in 1..Len(conns) : conns[c].symbol = self => conns[c].closed

\* C1: no two transport operations of the device are in progress at the same
\* time, and every transport operation in progress is executed by the worker
\* thread (the reads of the poll callbacks included).
C1_TransportOnWorkerOnly ==
    /\ Cardinality({t \in ExecThreads : InFlight(t)}) <= 1
    /\ \A t \in ExecThreads : InFlight(t) => t = Worker

\* C2: when a poll callback has raised, the callback is no longer a member of
\* its poll group and the poll thread of that rate is still alive.
C2_FailedCallbackRemoved ==
    \A r \in DOMAIN poll_threads :
        (lastEvent.thread = PollThread(r) /\ lastEvent.exc # "")
        => /\ pc[PollThread(r)] # "dead"
           /\ CallEntry(lastEvent.self) \notin Range(poll_threads[r].calls)

\* C3: whenever a poll thread is between cycles or has ended, the callbacks
\* it invoked in its last cycle are exactly the callbacks registered at the
\* start of that cycle, once each and in registration order.
C3_CycleInvokesAll ==
    \A r \in Rates :
        pc[PollThread(r)] \in {"loop", "dead"} => invoked[r] = snapshot[r]

\* C4: when the worker has executed the initializer of a symbol requested
\* without a poll rate and no transport call failed, the symbol's type is
\* resolved and its subscription handle is set.
C4_PushSubscribed ==
    (lastEvent.op = "init" /\ lastEvent.exc # "transport")
    => /\ heap[lastEvent.self].data_type # None
       /\ heap[lastEvent.self].notification_handle # None

\* C5: the poll callback of a symbol is a member of a poll group at most
\* once, however many connections were opened for the symbol.
C5_SingleRegistration ==
    \A r \in DOMAIN poll_threads :
        \A i, j \in 1..Len(poll_threads[r].calls) :
            poll_threads[r].calls[i] = poll_threads[r].calls[j] => i = j

\* C6: when Connection.close has run and no other symbol is registered on the
\* device, the symbol's entry is gone from the symbols mapping and the
\* transport handle is closed.
C6_CloseReleasesLast ==
    lastEvent.op = "Connection.close" =>
        LET key == Key(conns[lastEvent.conn].symbol_name,
                       conns[lastEvent.conn].poll_rate)
        IN DOMAIN symbols \subseteq {key}
           => (key \notin DOMAIN symbols /\ ~is_open)

\* C7: a released symbol is a member of no poll group, has no push
\* subscription, and no value of it is delivered to the sink.
C7_ReleasedIsSilent ==
    \A self \in Objects :
        Released(self)
        => /\ ~Polled(self)
           /\ heap[self].notification_handle = None
           /\ ~(lastEvent.op = "send_to_channel" /\ lastEvent.self = self)

\* C8: a symbol whose metadata queries all succeeded has had at most one
\* metadata query issued for it.
C8_SingleMetadataQuery ==
    \A self \in Objects : self \notin queryFailed => queryCount[self] <= 1

\* C9: the transport is never closed while a read or metadata query is in
\* flight on another thread, and the symbols and poll-group mappings are
\* changed by the worker thread only.
C9_CloseAndMappingsSequenced ==
    /\ lastEvent.closes
       => \A t \in ExecThreads \ {lastEvent.thread} : ~InFlight(t)
    /\ lastEvent.mutated # {} => lastEvent.thread = Worker

\* C10: the worker starts the queued operations in the order they were
\* enqueued, one at a time: the only operation that has started and not
\* finished is the last one started, and every operation enqueued before it
\* has finished.
C10_FifoOneAtATime ==
    /\ \A i \in 1..Len(startOrder) : startOrder[i] = i
    /\ \A i \in 1..Len(startOrder) :
          startOrder[i] \notin done
          => /\ i = Len(startOrder)
             /\ \A t \in 1..(startOrder[i] - 1) : t \in done

\* the second operation enqueued is executing a read while a third waits
C10_Witness ==
    /\ pc[Worker] = "read"
    /\ cur[Worker].ticket = 2
    /\ done = {1}
    /\ queue # <<>>

\* ------------------------------------------------------------- liveness
\* Connection.close changes nothing that a thread of the Plc reads (its
\* clear_symbol raises before it changes anything), so the specification
\* with fairness follows the other operations only.
NextLive ==
    \/ \E n \in SymbolNames, r \in PollRates : NewConnection(n, r)
    \/ Stop
    \/ WorkerCheck
    \/ WorkerGet
    \/ \E r \in Rates : PollLoop(r)
    \/ \E r \in Rates : PollCall(r)
    \/ \E t \in ExecThreads : QueryEnd(t)
    \/ \E t \in ExecThreads : ReadEnd(t)

\* every started thread is scheduled again and again, and every transport
\* call returns or raises
Fairness ==
    /\ WF_vars(WorkerCheck)
    /\ WF_vars(WorkerGet)
    /\ \A t \in ExecThreads : WF_vars(QueryEnd(t)) /\ WF_vars(ReadEnd(t))
    /\ \A r \in Rates : WF_vars(PollLoop(r)) /\ WF_vars(PollCall(r))

FairSpec == Init /\ [][NextLive]_vars /\ Fairness

Tickets == 1..(MaxConns + MaxStops)

\* C11: an operation that raises on the worker thread leaves the worker alive
\* and ready for the next item, no call of the caller's thread raises for it,
\* and while the device is running every enqueued operation is executed.
C11_WorkerSurvivesFailure ==
    /\ []((lastEvent.thread = Worker /\ lastEvent.exc # "")
           => pc[Worker] = "check")
    /\ [](lastEvent.op \in {"Connection.__init__", "Plc.stop"}
           => lastEvent.exc = "")
    /\ \A t \in Tickets :
          (t <= enqueued /\ running) ~> (t \in done \/ ~running)

\* the first initializer raised and the second one, enqueued behind it, has
\* delivered a value
C11_Witness ==
    /\ running
    /\ DOMAIN outcome = {1, 2}
    /\ outcome[1] = "raised"
    /\ outcome[2] = "delivered"

ConnKey(c) == Key(conns[c].symbol_name, conns[c].poll_rate)

\* C12: connections that asked for the same (name, poll_rate) hold the same
\* Symbol object, and the symbols mapping holds exactly one Symbol object per
\* requested key, a different one for each key.
C12_OneSymbolPerKey ==
    /\ \A c1, c2 \in 1..Len(conns) :
          ConnKey(c1) = ConnKey(c2) => conns[c1].symbol = conns[c2].symbol
    /\ DOMAIN symbols = {ConnKey(c) : c \in 1..Len(conns)}
    /\ \A c \in 1..Len(conns) : symbols[ConnKey(c)] = conns[c].symbol
    /\ \A k1, k2 \in DOMAIN symbols : symbols[k1] = symbols[k2] => k1 = k2
    /\ Len(heap) = Cardinality(DOMAIN symbols)

\* two connections were opened for the same key
C12_Witness ==
    /\ Len(conns) = 2
    /\ ConnKey(1) = ConnKey(2)
    /\ conns[1].symbol = conns[2].symbol

\* ------------------------------------------------------------- registry
Identities ==
    {Identity(ip, ams, port) : ip \in IpAddresses, ams \in AmsIds, port \in Ports}

\* a caller asks the registry for the Plc of an identity
GetConnection(ip_address, ams_id, port) ==
    /\ LET key == Identity(ip_address, ams_id, port)
           plc == get_connection(PLCS, plcs, key)
       IN /\ PLCS' = plc.PLCS
          /\ plcs' = plc.plcs
          /\ lastPlc' = [key |-> key, ret |-> plc.ret]
    /\ UNCHANGED <<plcVars, pureVars>>

NextRegistry ==
    \E ip \in IpAddresses, ams \in AmsIds, port \in Ports :
        GetConnection(ip, ams, port)

SpecRegistry == Init /\ [][NextRegistry]_vars

\* the Plc objects constructed for an identity
Constructed(key) == {k \in 1..Len(plcs) : plcs[k] = key}

\* C13: at most one Plc has been constructed per identity, and a call of
\* get_connection returns the Plc constructed by the first call for that
\* identity.
C13_OnePlcPerIdentity ==
    /\ \A key \in Identities : Cardinality(Constructed(key)) <= 1
    /\ lastPlc.ret # 0
       => /\ lastPlc.ret \in Constructed(lastPlc.key)
          /\ \A k \in Constructed(lastPlc.key) : lastPlc.ret <= k

\* a call for an identity seen before returned the Plc of the first call
\* after other Plc objects had been constructed
C13_Witness ==
    /\ Len(plcs) >= 3
    /\ lastPlc.ret = 2

\* ------------------------------------------------- polled initializer, stop
\* connection c exists and asked for a poll rate
PolledConn(c) == c <= Len(conns) /\ conns[c].poll_rate # None

\* the initializer of connection c has ended in the way how
InitEnded(c, how) ==
    /\ c <= Len(conns)
    /\ conns[c].ticket \in DOMAIN outcome
    /\ outcome[conns[c].ticket] = how

\* the callback of connection c's symbol is a member of the poll group of its
\* rate, and the poll thread of that rate has been started
Registered(c) ==
    /\ conns[c].poll_rate \in DOMAIN poll_threads
    /\ CallEntry(conns[c].symbol)
           \in Range(poll_threads[conns[c].poll_rate].calls)
    /\ pc[PollThread(conns[c].poll_rate)] # "none"

C15_StopTerminatesWorker ==
    /\ (~running) ~> (pc[Worker] = "dead")
    /\ [][(pc[Worker] # "dead" /\ pc'[Worker] = "dead")
           => (pc[Worker] = "check" /\ ~is_open' /\ lastEvent'.closes)]_vars
    /\ [][(running /\ ~running')
           => (pc'[Worker] = pc[Worker] /\ cur'[Worker] = cur[Worker])]_vars

\* the worker has terminated after executing an initializer to its end
C15_Witness ==
    /\ pc[Worker] = "dead"
    /\ ~running
    /\ ~is_open
    /\ \E t \in DOMAIN outcome : outcome[t] = "delivered"

\* C16: every operation put on the command queue is eventually executed by
\* the worker thread.
C16_QueueAlwaysDrained ==
    \A t \in Tickets : (t <= enqueued) ~> (t \in done)

ConnsOf(self) == {c \in 1..Len(conns) : conns[c].symbol = self}

\* C20: every value a Symbol publishes goes to one sink, the connection of
\* the most recent set_connection call on that Symbol.
C20_LatestSinkOnly ==
    lastEvent.op = "send_to_channel"
    => /\ lastEvent.conn \in ConnsOf(lastEvent.self)
       /\ \A c \in ConnsOf(lastEvent.self) : c <= lastEvent.conn

\* a value is published on a Symbol that two connections share
C20_Witness ==
    /\ lastEvent.op = "send_to_channel"
    /\ ConnsOf(lastEvent.self) = {1, 2}
    /\ lastEvent.conn = 2

\* ------------------------------------------------------- address parsing
\* strings are sequences of one-character strings
Digits == {"0", "1", "2", "3", "4", "5", "6", "7", "8", "9"}
DigitValue(ch) == CHOOSE n \in 0..9 : <<"0", "1", "2", "3", "4", "5", "6", "7", "8", "9">>[n + 1] = ch

\* ch in s
Contains(s, ch) == \E i \in 1..Len(s) : s[i] = ch

\* s.count(ch)
Count(s, ch) == Cardinality({i \in 1..Len(s) : s[i] = ch})

\* s.endswith(suffix)
EndsWith(s, suffix) ==
    /\ Len(s) >= Len(suffix)
    /\ SubSeq(s, Len(s) - Len(suffix) + 1, Len(s)) = suffix

\* s.startswith(prefix)
StartsWith(s, prefix) ==
    /\ Len(s) >= Len(prefix)
    /\ SubSeq(s, 1, Len(prefix)) = prefix

\* s.partition(ch): the text before the first ch and the text after it; the
\* whole of s and the empty string when ch is not in s
Partition(s, ch) ==
    IF Contains(s, ch)
    THEN LET i == CHOOSE i \in 1..Len(s) :
                     s[i] = ch /\ \A j \in 1..(i - 1) : s[j] # ch
         IN [head |-> SubSeq(s, 1, i - 1), tail |-> SubSeq(s, i + 1, Len(s))]
    ELSE [head |-> s, tail |-> <<>>]

\* s.split(ch): the pieces between the occurrences of ch
RECURSIVE Split(_, _)
Split(s, ch) ==
    IF Contains(s, ch)
    THEN <<Partition(s, ch).head>> \o Split(Partition(s, ch).tail, ch)
    ELSE <<s>>

\* s.lstrip(ch)
RECURSIVE LStrip(_, _)
LStrip(s, ch) ==
    IF s # <<>> /\ Head(s) = ch THEN LStrip(Tail(s), ch) ELSE s

\* int(text) for a text of decimal digits; ValueError otherwise
RECURSIVE DecimalValue(_)
DecimalValue(text) ==
    IF text = <<>> THEN 0
    ELSE 10 * DecimalValue(SubSeq(text, 1, Len(text) - 1))
         + DigitValue(text[Len(text)])
int(text) ==
    IF text # <<>> /\ \A i \in 1..Len(text) : text[i] \in Digits
    THEN [raised |-> FALSE, value |-> DecimalValue(text)]
    ELSE [raised |-> TRUE, value |-> 0]

\* float(text) for a decimal numeral with at most one point; ValueError
\* otherwise.  The float is kept as its numeral.
float(text) ==
    IF /\ \A i \in 1..Len(text) : text[i] \in Digits \cup {"."}
       /\ Count(text, ".") <= 1
       /\ \E i \in 1..Len(text) : text[i] \in Digits
    THEN [raised |-> FALSE, value |-> text]
    ELSE [raised |-> TRUE, value |-> <<>>]

Suffix11 == <<".", "1", ".", "1">>
DefaultPort == 851

\* a host resolution that accepts every 6-octet net-id
split_host_nocheck(host) ==
    IF Contains(host, "@")
    THEN IF Len(Split(host, "@")) # 2
         THEN [raised |-> TRUE, ams_id |-> <<>>, ip_address |-> <<>>]
         ELSE [raised |-> FALSE, ams_id |-> Split(host, "@")[1],
               ip_address |-> Split(host, "@")[2]]
    ELSE IF Count(host, ".") = 3
    THEN [raised |-> FALSE, ams_id |-> host \o Suffix11, ip_address |-> host]
    ELSE IF Count(host, ".") = 5
    THEN [raised |-> FALSE, ams_id |-> host,
          ip_address |-> SubSeq(host, 1, Len(host) - 4)]
    ELSE [raised |-> TRUE, ams_id |-> <<>>, ip_address |-> <<>>]

\* parse_address, the host forms: net_id@ip (an unpacking of other than two
\* pieces raises ValueError), 4-octet ip, 6-octet net-id ending in .1.1
split_host(host) ==
    IF Contains(host, "@")
    THEN IF Len(Split(host, "@")) # 2
         THEN [raised |-> TRUE, ams_id |-> <<>>, ip_address |-> <<>>]
         ELSE [raised |-> FALSE, ams_id |-> Split(host, "@")[1],
               ip_address |-> Split(host, "@")[2]]
    ELSE IF Count(host, ".") = 3
    THEN [raised |-> FALSE, ams_id |-> host \o Suffix11, ip_address |-> host]
    ELSE IF Count(host, ".") = 5
    THEN IF ~EndsWith(host, Suffix11)
         THEN [raised |-> TRUE, ams_id |-> <<>>, ip_address |-> <<>>]
         ELSE [raised |-> FALSE, ams_id |-> host,
               ip_address |-> SubSeq(host, 1, Len(host) - 4)]
    ELSE [raised |-> TRUE, ams_id |-> <<>>, ip_address |-> <<>>]

ParseError == [NotParsed EXCEPT !.status = "error"]

\* parse_address(addr): the dictionary returned, or status "error" when a
\* ValueError is raised
parse_address(addr) ==
    LET host_info == Partition(addr, "/").head
        rest == Partition(addr, "/").tail
        pieces == Split(host_info, ":")
        host == IF Contains(host_info, ":") THEN pieces[1] ELSE host_info
        polled == StartsWith(rest, <<"@">>) /\ Contains(rest, "/")
        symbol == IF polled THEN Partition(rest, "/").tail ELSE rest
        poll_rate == IF polled
                     THEN float(LStrip(Partition(rest, "/").head, "@"))
                     ELSE [raised |-> FALSE, value |-> <<>>]
        port == IF Contains(host_info, ":") /\ Len(pieces) = 2
                THEN int(pieces[2])
                ELSE [raised |-> FALSE, value |-> DefaultPort]
    IN IF Contains(host_info, ":") /\ Len(pieces) # 2 THEN ParseError
       ELSE IF split_host(host).raised THEN ParseError
       ELSE IF port.raised \/ poll_rate.raised THEN ParseError
       ELSE [status |-> "ok",
             ip_address |-> split_host(host).ip_address,
             host |-> host,
             ams_id |-> split_host(host).ams_id,
             port |-> port.value,
             poll_rate |-> poll_rate.value,
             symbol |-> symbol]

\* the addresses parsed: hosts of one to MaxOctets dotted octets, net_id@ip
\* hosts, with and without a port, a poll segment and a symbol
Octets == {<<"1">>, <<"5">>}
RECURSIVE Dotted(_)
Dotted(n) ==
    IF n = 1 THEN Octets
    ELSE {d \o <<".">> \o o : d \in Dotted(n - 1), o \in Octets}
Ip5 == <<"5", ".", "5", ".", "5", ".", "5">>
AtNetIds == Dotted(2) \cup {d \in Dotted(6) : StartsWith(d, Ip5)}
AtIps == Dotted(1) \cup {Ip5}
Hosts ==
    UNION {Dotted(n) : n \in 1..MaxOctets}
    \cup {n \o <<"@">> \o i : n \in AtNetIds, i \in AtIps}
    \cup {<<"1", "@", "1", "@", "1">>}
PortTexts == {<<>>, <<":", "8", "5", "2">>, <<":", "8", "x">>,
              <<":", "8", ":", "5">>}
Remainders == {<<>>, <<"/", "a">>, <<"/", "@", "0", ".", "5", "/", "a">>,
               <<"/", "@", "x", "/", "a">>, <<"/", "@", "5">>}
Addresses == {h \o p \o r : h \in Hosts, p \in PortTexts, r \in Remainders}

\* an address is given and nothing is parsed yet
InitParse ==
    /\ InitPlc
    /\ address \in Addresses
    /\ parsed = NotParsed
    /\ sample = NoSample
    /\ decoded = NotDecoded

\* Connection.__init__ calls parse_address(address)
Parse ==
    /\ parsed.status = "none"
    /\ parsed' = parse_address(address)
    /\ UNCHANGED <<plcVars, regVars, address, sample, decoded>>

NextParse == Parse

SpecParse == InitParse /\ [][NextParse]_vars

\* the host of the address given: the text before the first "/" and ":"
HostGiven == Partition(Partition(address, "/").head, ":").head

\* text has the form a.b.c.d.1.1: six dotted fields, the last two being 1
IsNetIdForm(text) == Count(text, ".") = 5 /\ EndsWith(text, Suffix11)

\* C18 as stated: for every address parse_address accepts, whichever host
\* form it uses, the ams_id returned has the form a.b.c.d.1.1, and a 6-octet
\* host that does not end in .1.1 is rejected.
C18_AmsIdAlwaysNetIdForm ==
    /\ parsed.status = "ok" => IsNetIdForm(parsed.ams_id)
    /\ (/\ parsed.status # "none"
        /\ Count(HostGiven, ".") = 5
        /\ ~EndsWith(HostGiven, Suffix11)) => parsed.status = "error"

\* C18 amended: for an accepted address whose host is a 4-octet ip or a
\* 6-octet net-id, the ams_id returned has the form a.b.c.d.1.1 and is the
\* ip_address returned followed by .1.1; a 6-octet host that does not end in
\* .1.1 is rejected; for a host net_id@ip the ams_id and the ip_address
\* returned are the two sides of the "@" as given.
C18_AmsIdNetIdFormUnlessGiven ==
    /\ (parsed.status = "ok" /\ ~Contains(HostGiven, "@"))
       => /\ IsNetIdForm(parsed.ams_id)
          /\ parsed.ams_id = parsed.ip_address \o Suffix11
          /\ Count(HostGiven, ".") \in {3, 5}
    /\ (/\ parsed.status # "none"
        /\ ~Contains(HostGiven, "@")
        /\ Count(HostGiven, ".") = 5
        /\ ~EndsWith(HostGiven, Suffix11)) => parsed.status = "error"
    /\ (parsed.status = "ok" /\ Contains(HostGiven, "@"))
       => HostGiven = parsed.ams_id \o <<"@">> \o parsed.ip_address

\* a 6-octet net-id host with a port and a poll segment has been accepted
C18_Witness ==
    /\ parsed.status = "ok"
    /\ ~Contains(HostGiven, "@")
    /\ Count(HostGiven, ".") = 5
    /\ parsed.port = 852
    /\ parsed.poll_rate # <<>>

\* -------------------------------------------------- notification decoding
\* the members of ADST_Type that ads_type_to_ctype has an entry for
ADST_Type == {"INT8", "UINT8", "INT16", "UINT16", "INT32", "UINT32", "INT64",
              "UINT64", "REAL32", "REAL64", "STRING", "BIT"}

\* the ctypes class that each name of pyads.constants is bound to; two names
\* bound to one class are equal, and are one key of a dictionary
constants(name) ==
    CASE name = "PLCTYPE_BOOL" -> "c_bool"
      [] name = "PLCTYPE_BYTE" -> "c_ubyte"
      [] name = "PLCTYPE_UBYTE" -> "c_ubyte"
      [] name = "PLCTYPE_USINT" -> "c_ubyte"
      [] name = "PLCTYPE_SINT" -> "c_int8"
      [] name = "PLCTYPE_INT" -> "c_int16"
      [] name = "PLCTYPE_UINT" -> "c_uint16"
      [] name = "PLCTYPE_WORD" -> "c_uint16"
      [] name = "PLCTYPE_DINT" -> "c_int32"
      [] name = "PLCTYPE_UDINT" -> "c_uint32"
      [] name = "PLCTYPE_DWORD" -> "c_uint32"
      [] name = "PLCTYPE_LINT" -> "c_int64"
      [] name = "PLCTYPE_ULINT" -> "c_uint64"
      [] name = "PLCTYPE_REAL" -> "c_float"
      [] name = "PLCTYPE_LREAL" -> "c_double"
      [] name = "PLCTYPE_STRING" -> "c_char"

\* ads_type_to_ctype[adst]
ads_type_to_ctype(adst) ==
    CASE adst = "INT8" -> constants("PLCTYPE_BYTE")
      [] adst = "UINT8" -> constants("PLCTYPE_UBYTE")
      [] adst = "INT16" -> constants("PLCTYPE_INT")
      [] adst = "UINT16" -> constants("PLCTYPE_UINT")
      [] adst = "INT32" -> constants("PLCTYPE_DINT")
      [] adst = "UINT32" -> constants("PLCTYPE_UDINT")
      [] adst = "INT64" -> constants("PLCTYPE_LINT")
      [] adst = "UINT64" -> constants("PLCTYPE_ULINT")
      [] adst = "REAL32" -> constants("PLCTYPE_REAL")
      [] adst = "REAL64" -> constants("PLCTYPE_LREAL")
      [] adst = "STRING" -> constants("PLCTYPE_STRING")
      [] adst = "BIT" -> constants("PLCTYPE_BOOL")

\* the dictionary display of unpack_notification, in the order written
datatype_map_items ==
    << <<constants("PLCTYPE_BOOL"), "<?">>,
       <<constants("PLCTYPE_BYTE"), "<c">>,
       <<constants("PLCTYPE_DINT"), "<i">>,
       <<constants("PLCTYPE_DWORD"), "<I">>,
       <<constants("PLCTYPE_INT"), "<h">>,
       <<constants("PLCTYPE_LREAL"), "<d">>,
       <<constants("PLCTYPE_REAL"), "<f">>,
       <<constants("PLCTYPE_SINT"), "<b">>,
       <<constants("PLCTYPE_UDINT"), "<L">>,
       <<constants("PLCTYPE_UINT"), "<H">>,
       <<constants("PLCTYPE_USINT"), "<B">>,
       <<constants("PLCTYPE_WORD"), "<H">> >>

\* plc_datatype in datatype_map
in_datatype_map(plc_datatype) ==
    \E i \in 1..Len(datatype_map_items) :
        datatype_map_items[i][1] = plc_datatype

\* datatype_map[plc_datatype]: of the items of a display with equal keys the
\* last one gives the value
datatype_map(plc_datatype) ==
    LET i == CHOOSE i \in 1..Len(datatype_map_items) :
                 /\ datatype_map_items[i][1] = plc_datatype
                 /\ \A j \in (i + 1)..Len(datatype_map_items) :
                        datatype_map_items[j][1] # plc_datatype
    IN datatype_map_items[i][2]

\* struct.calcsize(fmt)
calcsize(fmt) ==
    CASE fmt \in {"<?", "<c", "<b", "<B"} -> 1
      [] fmt \in {"<h", "<H"} -> 2
      [] fmt \in {"<i", "<I", "<L", "<f"} -> 4
      [] fmt \in {"<d"} -> 8

\* the unsigned and the two's-complement value of little-endian bytes
RECURSIVE UnsignedLE(_)
UnsignedLE(data) ==
    IF data = <<>> THEN 0 ELSE Head(data) + 256 * UnsignedLE(Tail(data))
RECURSIVE SignedLE(_)
SignedLE(data) ==
    IF Len(data) = 1
    THEN (IF Head(data) >= 128 THEN Head(data) - 256 ELSE Head(data))
    ELSE Head(data) + 256 * SignedLE(Tail(data))

\* struct.unpack(fmt, data)[0]: struct.error when the length of data is not
\* the size of fmt; "<c" gives a bytes object of length one; a float is
\* represented by its IEEE 754 bit pattern
struct_unpack(fmt, data) ==
    IF Len(data) # calcsize(fmt)
    THEN [status |-> "error", value |-> 0, raw |-> <<>>]
    ELSE CASE fmt = "<?" ->
                [status |-> "value", raw |-> <<>>,
                 value |-> IF data[1] # 0 THEN 1 ELSE 0]
           [] fmt = "<c" -> [status |-> "raw", value |-> 0, raw |-> data]
           [] fmt \in {"<b", "<h", "<i"} ->
                [status |-> "value", value |-> SignedLE(data), raw |-> <<>>]
           [] fmt \in {"<B", "<H", "<I", "<L", "<f", "<d"} ->
                [status |-> "value", value |-> UnsignedLE(data), raw |-> <<>>]

\* unpack_notification(notification, plc_datatype), the value returned: data
\* is the sample of the notification, cbSampleSize bytes
unpack_notification(data, plc_datatype) ==
    IF plc_datatype = constants("PLCTYPE_STRING")
    THEN [status |-> "raw", value |-> 0,
          raw |-> IF \E i \in 1..Len(data) : data[i] = 0
                  THEN SubSeq(data, 1,
                              (CHOOSE i \in 1..Len(data) :
                                   data[i] = 0
                                   /\ \A j \in 1..(i - 1) : data[j] # 0) - 1)
                  ELSE data]
    ELSE IF ~in_datatype_map(plc_datatype)
    THEN [status |-> "raw", value |-> 0, raw |-> data]
    ELSE struct_unpack(datatype_map(plc_datatype), data)

\* the scalar kinds of the built-in table and the width in bytes of each
ScalarKinds == ADST_Type \ {"STRING"}
WidthOf(kind) ==
    CASE kind \in {"INT8", "UINT8", "BIT"} -> 1
      [] kind \in {"INT16", "UINT16"} -> 2
      [] kind \in {"INT32", "UINT32", "REAL32"} -> 4
      [] kind \in {"INT64", "UINT64", "REAL64"} -> 8

\* the little-endian layout of value in width bytes (two's complement)
RECURSIVE PackLE(_, _)
PackLE(value, width) ==
    IF width = 0 THEN <<>>
    ELSE <<value % 256>> \o PackLE(value \div 256, width - 1)

\* the values sampled of each kind; a float is given by its bit pattern
\* (0.0, the least subnormals, 1.0, 2.0 and infinity of REAL32)
IntSamples == {-2147483647, -65536, -32769, -32768, -129, -128, -2, -1, 0, 1,
               127, 128, 255, 256, 32767, 32768, 65535, 65536, 2147483647}
FloatSamples == {0, 1, 2, 256, 1065353216, 1073741824, 2139095040}
ValuesOf(kind) ==
    CASE kind = "BIT" -> {0, 1}
      [] kind \in {"REAL32", "REAL64"} -> FloatSamples
      [] kind = "INT8" -> {v \in IntSamples : -128 <= v /\ v <= 127}
      [] kind = "UINT8" -> {v \in IntSamples : 0 <= v /\ v <= 255}
      [] kind = "INT16" -> {v \in IntSamples : -32768 <= v /\ v <= 32767}
      [] kind = "UINT16" -> {v \in IntSamples : 0 <= v /\ v <= 65535}
      [] kind \in {"INT32", "INT64"} -> IntSamples
      [] kind \in {"UINT32", "UINT64"} -> {v \in IntSamples : 0 <= v}
Samples ==
    UNION {{[kind |-> k, value |-> v] : v \in ValuesOf(k)} : k \in ScalarKinds}

\* a value of a scalar kind is given and nothing is decoded yet
InitDecode ==
    /\ InitPlc
    /\ address = NoAddress
    /\ parsed = NotParsed
    /\ sample \in Samples
    /\ decoded = NotDecoded

\* Symbol._notification_update: the device notifies the value in its
\* little-endian layout and the symbol decodes it with its resolved type
Decode ==
    /\ decoded.status = "none"
    /\ decoded' = unpack_notification(PackLE(sample.value, WidthOf(sample.kind)),
                                      ads_type_to_ctype(sample.kind))
    /\ UNCHANGED <<plcVars, regVars, address, parsed, sample>>

NextDecode == Decode

SpecDecode == InitDecode /\ [][NextDecode]_vars

\* C19: for every scalar kind the built-in type table resolves to,
\* unpack_notification decodes the little-endian bytes of a value of the kind
\* back to that value, and does not return the raw bytes.
C19_ScalarRoundTrip ==
    decoded.status # "none"
    => /\ decoded.status = "value"
       /\ decoded.value = sample.value

====
